---- MODULE Spec2Model ----
(***************************************************************************)
(* Encoder side HPACK dynamic table of h2: src/src/hpack/table.rs.         *)
(*                                                                         *)
(* The table is a ring of slots (VecDeque, push_back / pop_front), an      *)
(* open addressed Robin Hood index map of Pos records keyed by the hash    *)
(* of the header name, and a chain of same-name slots linked by `next`.    *)
(*                                                                         *)
(* Representation.                                                         *)
(*   Option<T>      : <<>> is None, <<x>> is Some(x).                      *)
(*   Vec / VecDeque : a sequence; the element Rust calls v[i] is v[i + 1]. *)
(*   Table          : a record with the fields of the struct, plus `fail`, *)
(*                    "" while the call runs and otherwise the reason of   *)
(*                    the panic (or of the endless loop) that stopped it.  *)
(*   usize          : a natural number below Word; the wrapping_*          *)
(*                    operations of the source wrap at Word.               *)
(***************************************************************************)
EXTENDS Integers, Sequences, FiniteSets, TLC

\* ------------------------------------------------------------- bounds

\* Width of usize in the model, in bits.
WordBits == 16

\* No call starts once this many entries were evicted since the last reset.
MaxEvicted == 2

\* No index call starts once the ring holds this many slots.
MaxRing == 7

\* ---------------------------------------------------------- constants

MAX_SIZE == 65536

DYN_OFFSET == 62

Word == 2 ^ WordBits

usize_MAX == Word - 1

wrapping_add(a, b) == (a + b) % Word

wrapping_sub(a, b) == (a - b + Word) % Word

\* a & b on naturals, bit by bit.
RECURSIVE BitAndBits(_, _)
BitAndBits(a, b) ==
    IF a = 0 \/ b = 0 THEN 0
    ELSE (a % 2) * (b % 2) + 2 * BitAndBits(a \div 2, b \div 2)

LowMasks == {2 ^ k - 1 : k \in 0..WordBits}

\* a & b: when b is 2^k - 1 the low k bits of a, that is a % 2^k.
BitAnd(a, b) == IF b \in LowMasks THEN a % (b + 1) ELSE BitAndBits(a, b)

RECURSIVE next_power_of_two(_)
next_power_of_two(n) == IF n <= 1 THEN 1 ELSE 2 * next_power_of_two((n + 1) \div 2)

Max(a, b) == IF a >= b THEN a ELSE b

None == <<>>

Some(x) == <<x>>

\* ------------------------------------------------------------- Header
\* A header is [name, value, sens]: the pseudo headers are the names that
\* start with a colon, `sens` is the sensitivity flag of the value.

\* Value of 36 bytes: with a 2 byte name the header costs 70.
LongValue == "0123456789abcdefghijklmnopqrstuvwxyz"

Hdr(n, v, s) == [name |-> n, value |-> v, sens |-> s]

\* Header::len: name bytes + value bytes + 32.
HeaderLen(h) == Len(h.name) + Len(h.value) + 32

\* Header::value_eq: the values are byte-equal (the flag is not compared).
value_eq(a, b) == a.value = b.value

is_sensitive(h) == h.sens

\* Header::skip_value_index: decided by the name alone.
SkipNames ==
    {":path", "age", "content-length", "etag", "if-modified-since",
     "if-none-match", "location", "set-cookie"}

skip_value_index(h) == h.name \in SkipNames

\* The 64 bit FNV digest of a name, as far as hash_header keeps it. The short
\* names stand for any names with these digests: ka and kb collide on all 16
\* bits that hash_header keeps,
\* kc collides with them in a map of 8 buckets and not of 16, kd is the
\* bucket after them in a map of 16 buckets.
FnvDigest(name) ==
    CASE name = "ka" -> 7
      [] name = "kb" -> 65536 + 7
      [] name = "kc" -> 15
      [] name = "kd" -> 8
      [] name = "authorization" -> 3
      [] name = ":method" -> 12
      [] name = ":path" -> 5
      [] OTHER -> 1

\* ------------------------------------------------------- pure helpers

usable_capacity(cap) == cap - cap \div 4

to_raw_capacity(n) == n + n \div 3

desired_pos(mask, hash) == BitAnd(hash, mask)

probe_distance(mask, hash, current) ==
    BitAnd(wrapping_sub(current, desired_pos(mask, hash)), mask)

hash_header(header) == BitAnd(FnvDigest(header.name), MAX_SIZE - 1)

\* Names of the static table with no canonical value, indices 15 .. 61
\* (accept-encoding, 16, is handled apart).
StaticNames ==
    <<"accept-charset", "accept-encoding", "accept-language", "accept-ranges",
      "accept", "access-control-allow-origin", "age", "allow", "authorization",
      "cache-control", "content-disposition", "content-encoding",
      "content-language", "content-length", "content-location",
      "content-range", "content-type", "cookie", "date", "etag", "expect",
      "expires", "from", "host", "if-match", "if-modified-since",
      "if-none-match", "if-range", "if-unmodified-since", "last-modified",
      "link", "location", "max-forwards", "proxy-authenticate",
      "proxy-authorization", "range", "referer", "refresh", "retry-after",
      "server", "set-cookie", "strict-transport-security",
      "transfer-encoding", "user-agent", "vary", "via", "www-authenticate">>

StatusIndex(v) ==
    CASE v = "200" -> 8 [] v = "204" -> 9 [] v = "206" -> 10 [] v = "304" -> 11
      [] v = "400" -> 12 [] v = "404" -> 13 [] v = "500" -> 14 [] OTHER -> 0

\* Option<(usize, bool)>: the static index and whether the value matched too.
index_static(header) ==
    LET n == header.name
        v == header.value
    IN  CASE n = ":authority" -> Some(<<1, FALSE>>)
          [] n = ":method" ->
                IF v = "GET" THEN Some(<<2, TRUE>>)
                ELSE IF v = "POST" THEN Some(<<3, TRUE>>)
                ELSE Some(<<2, FALSE>>)
          [] n = ":scheme" ->
                IF v = "http" THEN Some(<<6, TRUE>>)
                ELSE IF v = "https" THEN Some(<<7, TRUE>>)
                ELSE Some(<<6, FALSE>>)
          [] n = ":path" ->
                IF v = "/" THEN Some(<<4, TRUE>>)
                ELSE IF v = "/index.html" THEN Some(<<5, TRUE>>)
                ELSE Some(<<4, FALSE>>)
          [] n = ":status" ->
                IF StatusIndex(v) # 0 THEN Some(<<StatusIndex(v), TRUE>>)
                ELSE Some(<<8, FALSE>>)
          [] n = "accept-encoding" ->
                IF v = "gzip, deflate" THEN Some(<<16, TRUE>>)
                ELSE Some(<<16, FALSE>>)
          [] OTHER ->
                IF \E i \in 1..Len(StaticNames) : StaticNames[i] = n
                THEN Some(<<14 + (CHOOSE i \in 1..Len(StaticNames) : StaticNames[i] = n),
                            FALSE>>)
                ELSE None

\* ------------------------------------------------------------- Index

\* The Index enum: kind, the index it carries (0 when it carries none) and
\* the header it carries or refers to.
Ret(kind, idx, header) == [kind |-> kind, idx |-> idx, header |-> header]

\* Index::new
IndexNew(v, e) ==
    IF v = None THEN Ret("NotIndexed", 0, e)
    ELSE IF v[1][2] THEN Ret("Indexed", v[1][1], e)
    ELSE Ret("Name", v[1][1], e)

\* ------------------------------------------------------------- Table

Pos(index, hash) == [index |-> index, hash |-> hash]

Slot(hash, header, next) == [hash |-> hash, header |-> header, next |-> next]

NoneVec(n) == [i \in 1..n |-> None]

\* Table::new
TableNew(max_size, capacity) ==
    IF capacity = 0
    THEN [mask |-> 0, indices |-> <<>>, slots |-> <<>>, evicted |-> 0,
          size |-> 0, max_size |-> max_size, fail |-> ""]
    ELSE LET cap == Max(next_power_of_two(to_raw_capacity(capacity)), 8)
         IN  [mask |-> wrapping_sub(cap, 1), indices |-> NoneVec(cap),
              slots |-> <<>>, evicted |-> 0, size |-> 0,
              max_size |-> max_size, fail |-> ""]

\* Table::capacity
capacity(t) == usable_capacity(Len(t.indices))

Panic(t, why) == [t EXCEPT !.fail = IF @ = "" THEN why ELSE @]

\* probe_loop!: the bucket visited after `probe` (the macro resets the
\* variable to 0 once it reaches the length).
NextProbe(t, probe) == IF probe + 1 < Len(t.indices) THEN probe + 1 ELSE 0

\* Table::remove_phase_two, the loop: `probe` is the bucket looked at,
\* `last_probe` the hole behind it, `fuel` the buckets not yet visited.
RECURSIVE remove_phase_two_loop(_, _, _, _)
remove_phase_two_loop(t, last_probe, probe, fuel) ==
    IF fuel = 0 THEN Panic(t, "remove_phase_two: endless loop")
    ELSE IF t.indices[probe + 1] = None THEN t
    ELSE IF probe_distance(t.mask, t.indices[probe + 1][1].hash, probe) > 0
    THEN remove_phase_two_loop(
             [t EXCEPT !.indices[last_probe + 1] = t.indices[probe + 1],
                       !.indices[probe + 1] = None],
             probe, NextProbe(t, probe), fuel - 1)
    ELSE t

\* Table::remove_phase_two
remove_phase_two(t, probe) ==
    remove_phase_two_loop(t, probe, NextProbe(t, probe), Len(t.indices))

\* Table::evict, the probe loop: the bucket whose Pos has index pos_idx,
\* -1 when the probe unwraps an empty bucket first, -2 when it never ends.
RECURSIVE evict_find(_, _, _, _)
evict_find(t, pos_idx, probe, fuel) ==
    IF fuel = 0 THEN -2
    ELSE IF t.indices[probe + 1] = None THEN -1
    ELSE IF t.indices[probe + 1][1].index = pos_idx THEN probe
    ELSE evict_find(t, pos_idx, NextProbe(t, probe), fuel - 1)

evicted_inc(t) == [t EXCEPT !.evicted = wrapping_add(@, 1)]

\* evict, the body of the probe loop at the bucket `probe` that holds the
\* Pos of the popped `slot`, and the increment of `evicted`.
evict_fix(t, slot, prev_idx, probe) ==
    IF probe = -1 THEN Panic(t, "evict: unwrap of an empty bucket")
    ELSE IF probe = -2 THEN Panic(t, "evict: endless probe")
    ELSE evicted_inc(
             IF slot.next # None
             THEN [t EXCEPT !.indices[probe + 1] =
                       Some(Pos(slot.next[1], @[1].hash))]
             ELSE IF t.indices[probe + 1][1].index = prev_idx
             THEN [t EXCEPT !.indices[probe + 1] =
                       Some(Pos(wrapping_add(Len(t.slots) + 1, t.evicted),
                                @[1].hash))]
             ELSE remove_phase_two([t EXCEPT !.indices[probe + 1] = None], probe))

\* evict, once `slot` is popped and the size updated.
evict_popped(t, slot, prev_idx) ==
    evict_fix(t, slot, prev_idx,
              IF Len(t.indices) = 0 THEN -2
              ELSE evict_find(t, t.evicted, desired_pos(t.mask, slot.hash),
                              Len(t.indices)))

\* Table::evict
evict(t, prev_idx) ==
    IF t.slots = <<>> THEN Panic(t, "evict: pop_front of an empty ring")
    ELSE evict_popped(
             [t EXCEPT !.slots = Tail(@),
                       !.size = @ - HeaderLen(Head(t.slots).header)],
             Head(t.slots), prev_idx)

\* Table::converge, the loop: <<table, ret>>, ret is whether anything was
\* evicted.
RECURSIVE converge_loop(_, _, _)
converge_loop(t, prev_idx, ret) ==
    IF t.fail # "" THEN <<t, ret>>
    ELSE IF t.size > t.max_size THEN converge_loop(evict(t, prev_idx), prev_idx, TRUE)
    ELSE <<t, ret>>

\* converge that evicts once before it looks at the size.
converge_do_while(t, prev_idx) ==
    converge_loop(IF t.slots = <<>> THEN t ELSE evict(t, prev_idx), prev_idx,
                  t.slots # <<>>)

\* Table::converge
converge(t, prev_idx) == converge_loop(t, prev_idx, FALSE)

\* update_size that forgets to converge.
update_size_no_converge(t, len, prev_idx) ==
    <<[t EXCEPT !.size = @ + len], FALSE>>

\* Table::update_size
update_size(t, len, prev_idx) ==
    converge([t EXCEPT !.size = @ + len], prev_idx)

\* Table::reinsert_entry_in_order, the probe loop: the first empty bucket
\* from `probe` on, -2 when there is none.
RECURSIVE reinsert_find(_, _, _)
reinsert_find(t, probe, fuel) ==
    IF fuel = 0 THEN -2
    ELSE IF t.indices[probe + 1] = None THEN probe
    ELSE reinsert_find(t, NextProbe(t, probe), fuel - 1)

reinsert_at(t, pos, probe) ==
    IF probe = -2 THEN Panic(t, "reinsert_entry_in_order: endless probe")
    ELSE [t EXCEPT !.indices[probe + 1] = pos]

\* Table::reinsert_entry_in_order
reinsert_entry_in_order(t, pos) ==
    IF pos = None \/ t.fail # "" THEN t
    ELSE reinsert_at(t, pos,
                     reinsert_find(t, desired_pos(t.mask, pos[1].hash),
                                   Len(t.indices)))

\* The two for loops of grow: reinsert old[from + 1 .. to] in that order.
RECURSIVE reinsert_range(_, _, _, _)
reinsert_range(t, old, from, to) ==
    IF from >= to THEN t
    ELSE reinsert_range(reinsert_entry_in_order(t, old[from + 1]), old, from + 1, to)

\* The least element of a set of naturals, 0 when it is empty.
Least(S) == IF S = {} THEN 0 ELSE CHOOSE i \in S : \A j \in S : i <= j

\* grow, the search of the first ideally placed element. The source measures
\* the distance at pos.index, the index of the slot, not at the bucket i.
first_ideal_of(t) ==
    Least({i \in 0..(Len(t.indices) - 1) :
              /\ t.indices[i + 1] # None
              /\ probe_distance(t.mask, t.indices[i + 1][1].hash,
                                t.indices[i + 1][1].index) = 0})

\* grow_from that leaves the mask of the old map.
grow_from_keep_mask(t, first_ideal, new_raw_cap) ==
    reinsert_range(
        reinsert_range([t EXCEPT !.indices = NoneVec(new_raw_cap)],
                       t.indices, first_ideal, Len(t.indices)),
        t.indices, 0, first_ideal)

\* grow, the replacement of the map and the two loops.
grow_from(t, first_ideal, new_raw_cap) ==
    reinsert_range(
        reinsert_range([t EXCEPT !.indices = NoneVec(new_raw_cap),
                                 !.mask = wrapping_sub(new_raw_cap, 1)],
                       t.indices, first_ideal, Len(t.indices)),
        t.indices, 0, first_ideal)

\* Table::grow
grow(t, new_raw_cap) == grow_from(t, first_ideal_of(t), new_raw_cap)

\* Table::reserve_one
reserve_one(t) ==
    IF Len(t.slots) = capacity(t)
    THEN IF Len(t.slots) = 0
         THEN [t EXCEPT !.mask = 8 - 1, !.indices = NoneVec(8)]
         ELSE grow(t, 2 * Len(t.indices))
    ELSE t

\* A call that panicked returns nothing.
NoRet(header) == Ret("Panic", 0, header)

\* Table::index_vacant, the "Shift forward" loop: `prev` is the Pos carried to
\* the bucket `probe`.
RECURSIVE shift_forward(_, _, _, _)
shift_forward(t, prev, probe, fuel) ==
    IF fuel = 0 THEN Panic(t, "index_vacant: endless shift")
    ELSE IF t.indices[probe + 1] = None
    THEN [t EXCEPT !.indices[probe + 1] = Some(prev)]
    ELSE shift_forward([t EXCEPT !.indices[probe + 1] = Some(prev)],
                       t.indices[probe + 1][1], NextProbe(t, probe), fuel - 1)

\* index_vacant, the bucket to write after update_size: one back when
\* something was evicted and the bucket at `probe` is empty or poorer.
vacant_probe(t, evicted_any, dist, probe) ==
    IF evicted_any /\ dist # 0
    THEN IF t.indices[probe + 1] # None
         THEN IF probe_distance(t.mask, t.indices[probe + 1][1].hash, probe) < dist
              THEN BitAnd(wrapping_sub(probe, 1), t.mask) ELSE probe
         ELSE BitAnd(wrapping_sub(probe, 1), t.mask)
    ELSE probe

\* index_vacant: the slot is pushed and its Pos written at `probe`.
vacant_place(t, header, hash, probe) ==
    [t EXCEPT !.slots = Append(@, Slot(hash, header, None)),
              !.indices[probe + 1] =
                  Some(Pos(wrapping_add(Len(t.slots), t.evicted), hash))]

\* index_vacant, the value returned for the slot at slot_idx.
vacant_ret(t, slot_idx, statik, header) ==
    IF t.fail # "" THEN <<t, NoRet(header)>>
    ELSE IF statik # None
    THEN <<t, Ret("InsertedValue", statik[1][1], t.slots[slot_idx + 1].header)>>
    ELSE <<t, Ret("Inserted", 0, t.slots[slot_idx + 1].header)>>

\* index_vacant, from the push of the slot on.
vacant_write(t, header, hash, probe, statik) ==
    vacant_ret(IF t.indices[probe + 1] # None
               THEN shift_forward(vacant_place(t, header, hash, probe),
                                  t.indices[probe + 1][1],
                                  NextProbe(t, probe), Len(t.indices))
               ELSE vacant_place(t, header, hash, probe),
               Len(t.slots), statik, header)

\* index_vacant, after update_size returned u = <<table, evicted any>>.
vacant_sized(u, header, hash, dist, probe, statik) ==
    IF u[1].fail # "" THEN <<u[1], NoRet(header)>>
    ELSE vacant_write(u[1], header, hash,
                      vacant_probe(u[1], u[2], dist, probe), statik)

\* index_vacant without the test of is_sensitive.
index_vacant_insert(t, header, hash, dist, probe, statik) ==
    vacant_sized(update_size(t, HeaderLen(header), usize_MAX),
                 header, hash, dist, probe, statik)

\* Table::index_vacant: <<table, Index>>
index_vacant(t, header, hash, dist, probe, statik) ==
    IF is_sensitive(header) THEN <<t, IndexNew(statik, header)>>
    ELSE vacant_sized(update_size(t, HeaderLen(header), usize_MAX),
                      header, hash, dist, probe, statik)

\* index_occupied: the last slot of the chain, of logical index `index`, is
\* linked to the slot about to be pushed unless `evicted` passed it.
occupied_link(t, index) ==
    IF t.evicted <= index
    THEN IF wrapping_sub(index, t.evicted) < Len(t.slots)
         THEN [t EXCEPT !.slots[wrapping_sub(index, t.evicted) + 1].next =
                   Some(wrapping_add(Len(t.slots), t.evicted))]
         ELSE Panic(t, "index_occupied: slot out of range")
    ELSE t

\* index_occupied: the push of the slot and the value returned; real_idx is
\* the place the last slot of the chain had when the call started.
occupied_push(t, header, hash, real_idx) ==
    IF t.fail # "" THEN <<t, NoRet(header)>>
    ELSE <<[t EXCEPT !.slots = Append(@, Slot(hash, header, None))],
           Ret("InsertedValue", real_idx + DYN_OFFSET, header)>>

\* index_occupied, after update_size.
occupied_sized(t, header, hash, index, real_idx) ==
    IF t.fail # "" THEN <<t, NoRet(header)>>
    ELSE occupied_push(occupied_link(t, index), header, hash, real_idx)

\* index_occupied, the end of the chain: the header is appended.
occupied_insert(t, header, hash, index, real_idx) ==
    occupied_sized(update_size(t, HeaderLen(header), index)[1],
                   header, hash, index, real_idx)

\* index_occupied, no slot of the chain has the value: a sensitive header
\* is answered with the name, any other is appended.
chain_end(t, header, hash, index, real_idx) ==
    IF is_sensitive(header)
    THEN <<t, Ret("Name", real_idx + DYN_OFFSET, header)>>
    ELSE occupied_insert(t, header, hash, index, real_idx)

\* index_occupied, one turn of the loop at the slot of place real_idx.
RECURSIVE index_occupied_loop(_, _, _, _, _)
occupied_at(t, header, hash, index, real_idx, fuel) ==
    IF fuel = 0
    THEN <<Panic(t, "index_occupied: endless chain"), NoRet(header)>>
    ELSE IF real_idx >= Len(t.slots)
    THEN <<Panic(t, "index_occupied: slot out of range"), NoRet(header)>>
    ELSE IF value_eq(t.slots[real_idx + 1].header, header)
    THEN <<t, Ret("Indexed", real_idx + DYN_OFFSET, header)>>
    ELSE IF t.slots[real_idx + 1].next # None
    THEN index_occupied_loop(t, header, hash, t.slots[real_idx + 1].next[1],
                             fuel - 1)
    ELSE chain_end(t, header, hash, index, real_idx)

\* Table::index_occupied, the loop over the chain: <<table, Index>>
index_occupied_loop(t, header, hash, index, fuel) ==
    occupied_at(t, header, hash, index, wrapping_sub(index, t.evicted), fuel)

\* Table::index_occupied
index_occupied(t, header, hash, index, statik) ==
    index_occupied_loop(t, header, hash, index, Len(t.slots) + 1)

\* Table::index_dynamic, the probe loop: <<table, Index>>
RECURSIVE index_dynamic_loop(_, _, _, _, _, _, _)
index_dynamic_loop(t, header, hash, statik, probe, dist, fuel) ==
    IF fuel = 0 THEN <<Panic(t, "index_dynamic: endless probe"), NoRet(header)>>
    ELSE IF \/ t.indices[probe + 1] = None
            \/ probe_distance(t.mask, t.indices[probe + 1][1].hash, probe) < dist
    THEN index_vacant(t, header, hash, dist, probe, statik)
    ELSE IF t.indices[probe + 1][1].hash # hash
    THEN index_dynamic_loop(t, header, hash, statik, NextProbe(t, probe),
                            dist + 1, fuel - 1)
    ELSE IF wrapping_sub(t.indices[probe + 1][1].index, t.evicted) >= Len(t.slots)
    THEN <<Panic(t, "index_dynamic: slot out of range"), NoRet(header)>>
    ELSE IF t.slots[wrapping_sub(t.indices[probe + 1][1].index, t.evicted) + 1]
                .header.name = header.name
    THEN index_occupied(t, header, hash, t.indices[probe + 1][1].index, statik)
    ELSE index_dynamic_loop(t, header, hash, statik, NextProbe(t, probe),
                            dist + 1, fuel - 1)

\* index_dynamic, after reserve_one.
index_dynamic_reserved(t, header, hash, statik) ==
    IF t.fail # "" THEN <<t, NoRet(header)>>
    ELSE IF Len(t.indices) = 0 THEN <<t, IndexNew(statik, header)>>
    ELSE index_dynamic_loop(t, header, hash, statik, desired_pos(t.mask, hash),
                            0, 2 * Len(t.indices) + 2)

\* Table::index_dynamic
index_dynamic(t, header, statik) ==
    index_dynamic_reserved(
        IF HeaderLen(header) + t.size < t.max_size \/ ~is_sensitive(header)
        THEN reserve_one(t) ELSE t,
        header, hash_header(header), statik)

\* index, once the static table was looked up, without the test of large
\* headers.
index_with_no_large_test(t, header, statik) ==
    IF skip_value_index(header) THEN <<t, IndexNew(statik, header)>>
    ELSE IF statik # None /\ statik[1][2]
    THEN <<t, Ret("Indexed", statik[1][1], header)>>
    ELSE index_dynamic(t, header, statik)

\* Table::index, once the static table was looked up.
index_with(t, header, statik) ==
    IF skip_value_index(header) THEN <<t, IndexNew(statik, header)>>
    ELSE IF statik # None /\ statik[1][2]
    THEN <<t, Ret("Indexed", statik[1][1], header)>>
    ELSE IF HeaderLen(header) * 4 > t.max_size * 3
    THEN <<t, IndexNew(statik, header)>>
    ELSE index_dynamic(t, header, statik)

\* Table::index: <<table, Index>>
index(t, header) == index_with(t, header, index_static(header))

\* resize that leaves `evicted` as it is when it clears the table.
resize_keep_evicted(t, new_size) ==
    IF new_size = 0
    THEN [t EXCEPT !.max_size = new_size, !.size = 0,
                   !.indices = NoneVec(Len(t.indices)), !.slots = <<>>]
    ELSE converge([t EXCEPT !.max_size = new_size], usize_MAX)[1]

\* Table::resize
resize(t, new_size) ==
    IF new_size = 0
    THEN [t EXCEPT !.max_size = new_size, !.size = 0,
                   !.indices = NoneVec(Len(t.indices)), !.slots = <<>>,
                   !.evicted = 0]
    ELSE converge([t EXCEPT !.max_size = new_size], usize_MAX)[1]

\* ------------------------------------------------- reference decoder
\* The dynamic table of a decoder that follows the encoder: a sequence of
\* headers, the newest first, so that index 62 is entry 1.

RECURSIVE SumLen(_)
SumLen(hs) == IF hs = <<>> THEN 0 ELSE HeaderLen(Head(hs)) + SumLen(Tail(hs))

RECURSIVE DecEvict(_, _)
DecEvict(d, max) ==
    IF d # <<>> /\ SumLen(d) > max THEN DecEvict(SubSeq(d, 1, Len(d) - 1), max)
    ELSE d

DecInsert(d, h, max) == DecEvict(<<h>> \o d, max)

\* The entry a dynamic index designates, None when it designates nothing.
DecResolve(d, i) ==
    IF i >= DYN_OFFSET /\ i - DYN_OFFSET + 1 <= Len(d)
    THEN Some(d[i - DYN_OFFSET + 1]) ELSE None

DecStep(d, ret, max) ==
    IF ret.kind \in {"Inserted", "InsertedValue"}
    THEN DecInsert(d, Hdr(ret.header.name, ret.header.value, FALSE), max)
    ELSE d

\* ----------------------------------------------------- state machine

VARIABLES
    mask, indices, slots, evicted, size, max_size,  \* the fields of Table
    fail,       \* "" or why the last call did not return
    last,       \* the last call: its operation, arguments and result
    dec,        \* the table of the reference decoder
    script,     \* the calls a scripted caller still makes, and its results
    twin        \* the same run on a table whose counter is far from the wrap

vars ==
    <<mask, indices, slots, evicted, size, max_size, fail, last, dec, script, twin>>

\* The table as the operators take it.
Self ==
    [mask |-> mask, indices |-> indices, slots |-> slots, evicted |-> evicted,
     size |-> size, max_size |-> max_size, fail |-> fail]

Store(t) ==
    /\ mask' = t.mask
    /\ indices' = t.indices
    /\ slots' = t.slots
    /\ evicted' = t.evicted
    /\ size' = t.size
    /\ max_size' = t.max_size
    /\ fail' = t.fail

NoHeader == Hdr("", "", FALSE)

\* A call: `ret` is what it returned, `ev` how many slots it removed from the
\* ring, `ref` the entry of the decoder that ret.idx designated when the
\* call returned (before the decoder inserts anything itself).
Call(op, header, arg, ret, ev, ref) ==
    [op |-> op, header |-> header, arg |-> arg, ret |-> ret, ev |-> ev, ref |-> ref]

\* Headers the callers pass to index.
Headers ==
    {Hdr("ka", "v", FALSE), Hdr("ka", "w", FALSE), Hdr("kb", "v", FALSE),
     Hdr("kc", LongValue, FALSE), Hdr("kd", "v", FALSE),
     Hdr("authorization", "secret", FALSE),
     Hdr("ka", "v", TRUE), Hdr("ka", "x", TRUE),
     Hdr("authorization", "secret", TRUE),
     Hdr(":method", "GET", FALSE), Hdr(":path", "/x", FALSE)}

\* Byte budgets the callers pass to new and resize.
Sizes == {0, 64, 100, 4096}

\* Capacities the callers pass to new.
Capacities == {0, 6}

NoScript == [family |-> "", todo |-> <<>>, done |-> <<>>]

\* A twin table and what its last call returned.
Twin(t, ret) == [table |-> t, ret |-> ret]

NoTwin == Twin(TableNew(0, 0), Ret("None", 0, NoHeader))

\* The table t is the one new returned.
Fresh(t, ms) ==
    /\ mask = t.mask
    /\ indices = t.indices
    /\ slots = t.slots
    /\ evicted = t.evicted
    /\ size = t.size
    /\ max_size = t.max_size
    /\ fail = t.fail
    /\ last = Call("new", NoHeader, ms, Ret("None", 0, NoHeader), 0, None)
    /\ dec = <<>>

\* Table::new, called with (ms, c).
New(ms, c) == Fresh(TableNew(ms, c), ms)

\* index returned r = <<table, Index>>: the table is stored and the decoder
\* reads the result.
IndexDone(r, h) ==
    /\ Store(r[1])
    /\ last' = Call("index", h, 0, r[2], wrapping_sub(r[1].evicted, evicted),
                    DecResolve(dec, r[2].idx))
    /\ dec' = DecStep(dec, r[2], max_size)

\* Table::index, called with h.
IndexCall(h) ==
    /\ fail = ""
    /\ IndexDone(index(Self, h), h)

\* resize left the table t: it is stored and the decoder told the new size.
ResizeDone(t, n) ==
    /\ Store(t)
    /\ last' = Call("resize", NoHeader, n,
                    Ret(IF t.fail = "" THEN "None" ELSE "Panic", 0, NoHeader),
                    Len(slots) - Len(t.slots), None)
    /\ dec' = DecEvict(dec, n)

\* Table::resize, called with n.
ResizeCall(n) ==
    /\ fail = ""
    /\ ResizeDone(resize(Self, n), n)

\* Any caller: any sequence of index and resize calls.
Init ==
    /\ \E ms \in Sizes, c \in Capacities : New(ms, c)
    /\ script = NoScript
    /\ twin = NoTwin

Index(h) ==
    /\ evicted < MaxEvicted
    /\ Len(slots) < MaxRing
    /\ IndexCall(h)
    /\ UNCHANGED <<script, twin>>

Resize(n) ==
    /\ ResizeCall(n)
    /\ UNCHANGED <<script, twin>>

Next ==
    \/ \E h \in Headers : Index(h)
    \/ \E n \in Sizes : Resize(n)

Spec == Init /\ [][Next]_vars

\* A scripted caller: a table made by new and a fixed list of calls.
OpIndex(h) == [op |-> "index", header |-> h, arg |-> 0]

OpResize(n) == [op |-> "resize", header |-> NoHeader, arg |-> n]

UnknownNames == {"ka", "kb", "kc", "kd", "custom-foo"}

Values == {"bar", "baz", "v"}

\* Scenario 3 of the specification: the same name with two values.
ChainScripts ==
    {[family |-> "chain",
      todo |-> <<OpIndex(Hdr(n, v1, FALSE)), OpIndex(Hdr(n, v1, FALSE)),
                 OpIndex(Hdr(n, v2, FALSE)), OpIndex(Hdr(n, v1, FALSE))>>,
      done |-> <<>>] : n \in UnknownNames, v1 \in Values, v2 \in Values}

\* A table that is filled, cleared by resize(0), given a budget again and used.
ResetScripts ==
    {[family |-> "reset",
      todo |-> <<OpIndex(Hdr(n, "bar", FALSE)), OpIndex(Hdr("kd", v, FALSE)),
                 OpResize(0), OpResize(ms),
                 OpIndex(Hdr(n, v, FALSE)), OpIndex(Hdr(n, v, FALSE))>>,
      done |-> <<>>] : n \in UnknownNames, v \in Values, ms \in Sizes \ {0}}

\* Scenario 6 of the specification: a sensitive header with a static name,
\* then the same header not sensitive.
SensScripts ==
    {[family |-> "sens",
      todo |-> <<OpIndex(Hdr("authorization", v, TRUE)),
                 OpIndex(Hdr("authorization", v, FALSE))>>,
      done |-> <<>>] : v \in Values \cup {"secret"}}

\* Value of 29 bytes: with a 2 byte name the header costs 63.
Value29 == "0123456789abcdefghijklmnopqrs"

\* Scenario 5 of the specification: a header of 63 bytes, then one of 34
\* bytes with another name, in a table of 64 bytes.
EvictScripts ==
    {[family |-> "evict",
      todo |-> <<OpIndex(Hdr(n1, Value29, FALSE)), OpIndex(Hdr(n2, "", FALSE))>>,
      done |-> <<>>] : n1 \in {"ka", "kb", "kc", "kd"}, n2 \in {"ka", "kb", "kc", "kd"}}

Scripts ==
    {s \in ChainScripts : s.todo[1].header.value # s.todo[3].header.value}
        \cup ResetScripts
        \cup SensScripts
        \cup {s \in EvictScripts : s.todo[1].header.name # s.todo[2].header.name}

\* The max_size the scenario of a script starts with.
ScriptSize(s) == IF s.family = "evict" THEN 64 ELSE 4096

InitScript ==
    /\ script \in Scripts
    /\ \E c \in Capacities : New(ScriptSize(script), c)
    /\ twin = NoTwin

Done(s, ret) == [s EXCEPT !.todo = Tail(@), !.done = Append(@, ret)]

RunIndex ==
    /\ script.todo # <<>>
    /\ Head(script.todo).op = "index"
    /\ IndexCall(Head(script.todo).header)
    /\ script' = Done(script, last'.ret)
    /\ UNCHANGED twin

RunResize ==
    /\ script.todo # <<>>
    /\ Head(script.todo).op = "resize"
    /\ ResizeCall(Head(script.todo).arg)
    /\ script' = Done(script, last'.ret)
    /\ UNCHANGED twin

NextScript == RunIndex \/ RunResize

SpecScript == InitScript /\ [][NextScript]_vars

\* A caller of a table that has been in use for long: the counter `evicted`
\* is about to wrap. A table with an empty ring, an empty map of 8 buckets
\* and evicted = k is what remains after k rounds of index of one header
\* followed by resize(1), which evicts it, and resize(ms). The twin makes the
\* same calls from the same table with evicted = 0.
WrapStarts == {usize_MAX - 1, usize_MAX}

\* Headers this caller passes to index.
WrapHeaders ==
    {Hdr("ka", "v", FALSE), Hdr("ka", "w", FALSE), Hdr("kb", "v", FALSE),
     Hdr("kc", LongValue, FALSE), Hdr("ka", "x", TRUE)}

Worn(t, e) == [t EXCEPT !.evicted = e]

InitWrap ==
    /\ \E ms \in Sizes \ {0}, e \in WrapStarts :
           /\ Fresh(Worn(TableNew(ms, 6), e), ms)
           /\ twin = Twin(TableNew(ms, 6), Ret("None", 0, NoHeader))
    /\ script = NoScript

TwinIndexDone(r) == twin' = Twin(r[1], r[2])

TwinResizeDone(t) ==
    twin' = Twin(t, Ret(IF t.fail = "" THEN "None" ELSE "Panic", 0, NoHeader))

WrapIndex(h) ==
    /\ twin.table.fail = ""
    /\ twin.table.evicted < MaxEvicted
    /\ Len(slots) < MaxRing
    /\ IndexCall(h)
    /\ TwinIndexDone(index(twin.table, h))
    /\ UNCHANGED script

\* resize(0) resets the counter and ends the episode: only n > 0 here.
WrapResize(n) ==
    /\ twin.table.fail = ""
    /\ ResizeCall(n)
    /\ TwinResizeDone(resize(twin.table, n))
    /\ UNCHANGED script

NextWrap ==
    \/ \E h \in WrapHeaders : WrapIndex(h)
    \/ \E n \in Sizes \ {0} : WrapResize(n)

SpecWrap == InitWrap /\ [][NextWrap]_vars

\* ------------------------------------------------------------ claims

Returned == fail = ""

SameHeader(a, b) == a.name = b.name /\ a.value = b.value

\* Headers of the ring, the oldest first.
RingHeaders(ss) == [i \in 1..Len(ss) |-> ss[i].header]

\* The last call was index and returned a dynamic index of this kind.
DynamicRet(kinds) ==
    /\ Returned
    /\ last.op = "index"
    /\ last.ret.kind \in kinds
    /\ last.ret.idx >= DYN_OFFSET

\* The slot at position p counted from the newest end of the ring.
FromNewest(p) == slots[Len(slots) - p]

\* C1: whenever index(h) returns Indexed(i, _) with i >= 62, the live entry
\* at position i - 62 counted from the newest end of the ring is h.
C1_IndexedCountsFromNewest ==
    DynamicRet({"Indexed"}) =>
        /\ last.ret.idx - DYN_OFFSET < Len(slots)
        /\ SameHeader(FromNewest(last.ret.idx - DYN_OFFSET).header, last.header)

\* C2: stepping a reference decoder side by side, each Indexed(i) with
\* i >= 62 resolves in the decoder's table to the header passed to index, and
\* each Name(i) or InsertedValue(i) with i >= 62 resolves, before the
\* decoder's own insertion, to an entry with the same name.
C2_DecoderRoundTrip ==
    /\ DynamicRet({"Indexed"}) =>
           last.ref # None /\ SameHeader(last.ref[1], last.header)
    /\ DynamicRet({"Name", "InsertedValue"}) =>
           last.ref # None /\ last.ref[1].name = last.header.name

\* C3: after new and after every return of index or resize, size <= max_size
\* and size is the sum of header.len() over the slots of the ring.
C3_Budget ==
    Returned => size <= max_size /\ size = SumLen(RingHeaders(slots))

\* C3 witness: an index call that had to evict returned, with a slot left.
C3_Witness ==
    /\ Returned
    /\ last.op = "index"
    /\ last.ev > 0
    /\ Len(slots) > 1
    /\ size > 0

\* C4: every index or resize call returns: no unwrap of an empty bucket, no
\* pop from an empty ring, no slot out of range, no endless loop.
C4_Total == fail = ""

\* The step is an index call of a sensitive header that returned.
SensitiveCall ==
    last'.op = "index" /\ is_sensitive(last'.header) /\ fail' = ""

NameIsLive(ss, name) == \E i \in 1..Len(ss) : ss[i].header.name = name

HeaderIsLive(ss, h) == \E i \in 1..Len(ss) : SameHeader(ss[i].header, h)

NoSensitiveSlot(ss) == \A i \in 1..Len(ss) : ~is_sensitive(ss[i].header)

\* The call is answered from the static table alone (the subject of C7).
PolicyPath(h, max) ==
    \/ skip_value_index(h)
    \/ h.name = ":method" /\ h.value \in {"GET", "POST"}
    \/ HeaderLen(h) * 4 > max * 3

\* The frame of a sensitive call: no slot ever holds a sensitive header, and
\* index of a sensitive header leaves the ring and size as they were.
SensitiveFrame ==
    /\ NoSensitiveSlot(slots')
    /\ SensitiveCall => slots' = slots /\ size' = size

\* The result of a sensitive call whose name has a chain in the ring: Indexed
\* on a full match, Name otherwise, with a dynamic index.
SensitiveResult ==
    (/\ SensitiveCall
     /\ ~PolicyPath(last'.header, max_size)
     /\ NameIsLive(slots, last'.header.name)) =>
        /\ last'.ret.idx >= DYN_OFFSET
        /\ last'.ret.kind =
               IF HeaderIsLive(slots, last'.header) THEN "Indexed" ELSE "Name"

\* C5: index of a sensitive header leaves the ring and size unchanged, no
\* sensitive header is ever stored in a slot, and when the name already has
\* a chain in the ring the result is Name with the matched index, or Indexed
\* on a full value match.
C5_SensitiveIsolation == [][SensitiveFrame /\ SensitiveResult]_vars

\* The last call appended its header and evicted nothing, and the step is an
\* index call of an equal header that evicts nothing either.
RepeatedIndex ==
    /\ Returned
    /\ last.op = "index"
    /\ last.ret.kind \in {"Inserted", "InsertedValue"}
    /\ ~is_sensitive(last.header)
    /\ last.ev = 0
    /\ last'.op = "index"
    /\ last'.header = last.header
    /\ last'.ev = 0

\* C6: index(h) that appended h, followed at once by index of an equal
\* header, no eviction in either call: the second call returns Indexed(i, _)
\* with i designating the slot the first call appended, and appends nothing.
\* The index is accepted counted from either end of the ring (which end it
\* is counted from is the subject of C1).
C6_IdempotentHit ==
    [][RepeatedIndex =>
           /\ fail' = ""
           /\ last'.ret.kind = "Indexed"
           /\ last'.ret.idx \in {DYN_OFFSET, DYN_OFFSET + Len(slots) - 1}
           /\ Len(slots') = Len(slots)
           /\ size' = size]_vars

\* What the static table alone answers for the headers of the model.
StaticAnswer(h) ==
    CASE h.name = ":method" /\ h.value = "GET" -> Ret("Indexed", 2, h)
      [] h.name = ":path" /\ h.value # "/" /\ h.value # "/index.html" ->
             Ret("Name", 4, h)
      [] h.name = "authorization" -> Ret("Name", 23, h)
      [] OTHER -> Ret("NotIndexed", 0, h)

TableUnchanged ==
    UNCHANGED <<mask, indices, slots, evicted, size, max_size, fail>>

\* C7: index(h) leaves the whole table unchanged and returns the static
\* result when h.skip_value_index(), or the static table matches h fully, or
\* h.len() * 4 > max_size * 3; with max_size = 0 the ring stays empty.
C7_PolicyPaths ==
    [][/\ (last'.op = "index" /\ PolicyPath(last'.header, max_size)) =>
              TableUnchanged /\ last'.ret = StaticAnswer(last'.header)
       /\ (max_size' = 0 /\ fail' = "") => slots' = <<>>]_vars

\* C7 witness: a header too large for the budget was answered NotIndexed
\* while the ring holds an entry.
C7_Witness ==
    /\ Returned
    /\ last.op = "index"
    /\ ~skip_value_index(last.header)
    /\ HeaderLen(last.header) * 4 > max_size * 3
    /\ last.ret.kind = "NotIndexed"
    /\ Len(slots) > 0

\* The step is a call that evicts by converge and returned.
EvictingCall ==
    /\ fail' = ""
    /\ \/ last'.op = "index"
       \/ last'.op = "resize" /\ last'.arg > 0

Appended == IF last'.ret.kind \in {"Inserted", "InsertedValue"} THEN 1 ELSE 0

Removed == Len(slots) + Appended - Len(slots')

\* Bytes in the ring once the j oldest entries are gone and the header of
\* the call, if it is appended, is counted.
BytesAfter(j) ==
    SumLen(SubSeq(RingHeaders(slots), j + 1, Len(slots)))
        + Appended * HeaderLen(last'.header)

\* C8: the entries a call removes are the oldest ones, as many as it takes
\* for the size to be <= max_size and no more; resize(n > 0) keeps the
\* capacity of the index map.
C8_FifoMinimalEviction ==
    [][EvictingCall =>
           /\ Removed \in 0..Len(slots)
           /\ RingHeaders(slots') =
                  SubSeq(RingHeaders(slots), Removed + 1, Len(slots))
                      \o (IF Appended = 1 THEN <<last'.header>> ELSE <<>>)
           /\ \A j \in 0..(Removed - 1) : BytesAfter(j) > max_size'
           /\ BytesAfter(Removed) <= max_size'
           /\ last'.op = "resize" => Len(indices') = Len(indices) /\ mask' = mask]_vars

\* C8 witness: a resize(n > 0) evicted some entries and kept others.
C8_Witness ==
    /\ Returned
    /\ last.op = "resize"
    /\ last.arg > 0
    /\ last.ev > 0
    /\ Len(slots) > 0

AllNone(v) == \A i \in 1..Len(v) : v[i] = None

TwiceRet(kind1, r2) == <<kind1, r2[2].kind, r2[2].idx, Len(r2[1].slots)>>

TwiceSecond(r1, h) == TwiceRet(r1[2].kind, index(r1[1], h))

\* What index answers, twice in a row, on table t for header h: the kind of
\* the first result, the kind and index of the second, the ring length.
Twice(t, h) == TwiceSecond(index(t, h), h)

\* C9: resize(0) leaves every bucket empty, the ring empty, size = 0,
\* evicted = 0 and max_size = 0, the capacity unchanged; after a following
\* resize(n > 0) the table is the table new makes with that capacity, and a
\* header indexed then is inserted and found again.
C9_ResizeZero ==
    [][/\ (last'.op = "resize" /\ last'.arg = 0) =>
              /\ fail' = ""
              /\ AllNone(indices')
              /\ Len(indices') = Len(indices)
              /\ mask' = mask
              /\ slots' = <<>>
              /\ size' = 0
              /\ evicted' = 0
              /\ max_size' = 0
       /\ (/\ last.op = "resize" /\ last.arg = 0
           /\ last'.op = "resize" /\ last'.arg > 0) =>
              /\ Self' = TableNew(last'.arg, usable_capacity(Len(indices)))
              /\ \A h \in {Hdr("ka", "v", FALSE), Hdr("authorization", "secret", FALSE)} :
                     HeaderLen(h) * 4 <= last'.arg * 3 =>
                         Twice(Self', h) \in
                             {<<"Inserted", "Indexed", DYN_OFFSET, 1>>,
                              <<"InsertedValue", "Indexed", DYN_OFFSET, 1>>}]_vars

\* C9 witness: resize(0) cleared a ring that had entries, in a map that grew.
C9_Witness ==
    /\ Returned
    /\ last.op = "resize"
    /\ last.arg = 0
    /\ last.ev > 0
    /\ Len(indices) > 8

Kinds(done) == [i \in 1..Len(done) |-> <<done[i].kind, done[i].idx>>]

\* C10: on an empty table with max_size 4096, for an unknown name n and two
\* values v1, v2: index((n,v1)) returns Inserted, index((n,v1)) returns
\* Indexed(62), index((n,v2)) returns InsertedValue(63, _) and appends a slot,
\* a following index((n,v1)) returns Indexed(63).
C10_ChainScenario ==
    (script.family = "chain" /\ script.todo = <<>>) =>
        /\ Kinds(script.done) =
               <<<<"Inserted", 0>>, <<"Indexed", 62>>,
                 <<"InsertedValue", 63>>, <<"Indexed", 63>>>>
        /\ Len(slots) = 2

\* The scripted caller of this family made its last call, and all returned.
Finished(family) ==
    script.family = family /\ script.todo = <<>> /\ fail = ""

\* The scripted caller of this family made its first k calls.
After(family, k) ==
    script.family = family /\ Len(script.done) = k /\ fail = ""

EmptyTable == slots = <<>> /\ size = 0 /\ AllNone(indices)

\* C11 as stated: index of the sensitive authorization header returns
\* NotIndexed and leaves the table empty; index of the same header not
\* sensitive returns InsertedValue(23, _) and inserts it.
C11_AsStated ==
    /\ After("sens", 1) =>
           Kinds(script.done) = <<<<"NotIndexed", 0>>>> /\ EmptyTable
    /\ Finished("sens") =>
           /\ Kinds(script.done)[2] = <<"InsertedValue", 23>>
           /\ Len(slots) = 1

\* C11: on an empty table, index of a sensitive header whose name is in the
\* static table without a value match (authorization, static index 23)
\* returns Name(23, _), the static result, and leaves the table empty; a
\* following index of the same header not sensitive returns
\* InsertedValue(23, _) and inserts it.
C11_SensitiveStaticName ==
    /\ After("sens", 1) =>
           Kinds(script.done) = <<<<"Name", 23>>>> /\ EmptyTable
    /\ Finished("sens") =>
           /\ Kinds(script.done) = <<<<"Name", 23>>, <<"InsertedValue", 23>>>>
           /\ RingHeaders(slots) = <<Hdr("authorization", last.header.value, FALSE)>>
           /\ size = HeaderLen(last.header)

\* C11 witness: both calls of the scenario returned, with the value "secret".
C11_Witness ==
    Finished("sens") /\ last.header = Hdr("authorization", "secret", FALSE)

\* C12 as stated: the header of 63 bytes is inserted (ring length 1, size
\* 63), the header of 34 bytes evicts it and is inserted (ring length 1,
\* size 34).
C12_AsStated ==
    /\ After("evict", 1) => Len(slots) = 1 /\ size = 63
    /\ Finished("evict") => Len(slots) = 1 /\ size = 34 /\ last.ev = 1

\* C12: on an empty table with max_size = 64, index of an unknown-name header
\* of len 63 returns NotIndexed and leaves the ring empty (63 * 4 > 64 * 3);
\* a following index of a different-name header of len 34 inserts it and
\* evicts nothing, ending with ring length 1 and size 34.
C12_EvictionScenario ==
    /\ After("evict", 1) =>
           Kinds(script.done) = <<<<"NotIndexed", 0>>>> /\ EmptyTable
    /\ Finished("evict") =>
           /\ Kinds(script.done) = <<<<"NotIndexed", 0>>, <<"Inserted", 0>>>>
           /\ RingHeaders(slots) = <<last.header>>
           /\ size = 34
           /\ last.ev = 0

\* C12 witness: both calls of the scenario returned and the ring holds the
\* header of 34 bytes.
C12_Witness ==
    Finished("evict") /\ max_size = 64 /\ size = 34

\* The bucket k steps after bucket b on the cyclic path of the map.
Bucket(ix, b, k) == (b + k) % Len(ix)

\* Robin Hood order of the map ix under mask msk: on the path from the
\* desired bucket of an entry to the bucket that holds it, every bucket is
\* occupied by an entry at least as far from its own desired bucket.
RobinHood(ix, msk) ==
    \A b \in 0..(Len(ix) - 1) :
        ix[b + 1] # None =>
            \A k \in 0..(probe_distance(msk, ix[b + 1][1].hash, b) - 1) :
                /\ ix[Bucket(ix, desired_pos(msk, ix[b + 1][1].hash), k) + 1] # None
                /\ probe_distance(
                       msk,
                       ix[Bucket(ix, desired_pos(msk, ix[b + 1][1].hash), k) + 1][1].hash,
                       Bucket(ix, desired_pos(msk, ix[b + 1][1].hash), k)) >= k

\* C13: after every index or resize call, for every occupied bucket b holding
\* hash h, every bucket on the cyclic path from desired(h) up to b is occupied
\* and holds an entry whose probe distance is at least the distance of that
\* bucket from desired(h).
C13_RobinHood == Returned => RobinHood(indices, mask)

\* The place in the ring of the slot of logical index i.
Place(i) == wrapping_sub(i, evicted)

Live(i) == Place(i) < Len(slots)

\* The places a chain visits from the slot of logical index i on, following
\* next; it stops at a link that leaves the ring and after `fuel` slots.
RECURSIVE Walk(_, _)
Walk(i, fuel) ==
    IF fuel = 0 \/ ~Live(i) THEN <<>>
    ELSE <<Place(i)>> \o
         (IF slots[Place(i) + 1].next = None THEN <<>>
          ELSE Walk(slots[Place(i) + 1].next[1], fuel - 1))

Occupied == {b \in 1..Len(indices) : indices[b] # None}

\* The chain that starts at the Pos of bucket b (counted from 1).
Chain(b) == Walk(indices[b][1].index, Len(slots) + 1)

\* The (bucket, step) pairs of the paths from a Pos that reach place p.
PathsTo(p) ==
    {<<b, k>> \in Occupied \X (1..(Len(slots) + 1)) :
         k <= Len(Chain(b)) /\ Chain(b)[k] = p}

\* C14: after every index or resize call, every Pos has logical - evicted in
\* [0, ring length), every next link designates a live slot, every live slot
\* is reached by exactly one path that starts at a Pos and follows next, and
\* all slots on one chain have the name of the first and the hash of the Pos.
C14_ChainSoundness ==
    Returned =>
        /\ \A b \in Occupied : Live(indices[b][1].index)
        /\ \A p \in 1..Len(slots) :
               slots[p].next # None => Live(slots[p].next[1])
        /\ \A p \in 0..(Len(slots) - 1) : Cardinality(PathsTo(p)) = 1
        /\ \A b \in Occupied :
               \A k \in 1..Len(Chain(b)) :
                   /\ slots[Chain(b)[k] + 1].header.name =
                          slots[Chain(b)[1] + 1].header.name
                   /\ slots[Chain(b)[k] + 1].hash = indices[b][1].hash

\* The slot at place p (counted from 0) has a next link.
Linked(p) == slots[p + 1].next # None

SameName(p, q) == slots[p + 1].header.name = slots[q + 1].header.name

Places == 0..(Len(slots) - 1)

\* The slot a Pos designates is the newest (the oldest) of the live slots
\* that have its name.
PosAtNewest ==
    \A b \in Occupied :
        Live(indices[b][1].index) =>
            \A q \in Places :
                SameName(q, Place(indices[b][1].index)) =>
                    q <= Place(indices[b][1].index)

PosAtOldest ==
    \A b \in Occupied :
        Live(indices[b][1].index) =>
            \A q \in Places :
                SameName(q, Place(indices[b][1].index)) =>
                    q >= Place(indices[b][1].index)

\* Every next link designates a strictly older (newer) live slot of the same
\* name.
NextOlder ==
    \A p \in Places :
        Linked(p) =>
            /\ Live(slots[p + 1].next[1])
            /\ Place(slots[p + 1].next[1]) < p
            /\ SameName(p, Place(slots[p + 1].next[1]))

NextNewer ==
    \A p \in Places :
        Linked(p) =>
            /\ Live(slots[p + 1].next[1])
            /\ Place(slots[p + 1].next[1]) > p
            /\ SameName(p, Place(slots[p + 1].next[1]))

\* C15: in every state a call returns in, the Pos of a name designates the
\* live slot of that name at one end of the insertion order and every next
\* link designates a live slot of the same name strictly further from that
\* end, so that a chain visits the entries of a name in order. The claim
\* puts the Pos at the newest slot; the order from the oldest slot on is
\* accepted as well.
C15_ChainDirection ==
    Returned => \/ PosAtNewest /\ NextOlder
                \/ PosAtOldest /\ NextNewer

\* The step is an index or resize(n > 0) call that returned and took
\* `Removed` slots from the front of the ring.
Evicts == EvictingCall /\ Removed > 0

\* The map after the step holds a Pos of this logical index and hash.
PosAfter(logical, hash) ==
    \E b \in 1..Len(indices') : indices'[b] = Some(Pos(logical, hash))

\* The step appended a value to the chain of a name (index_occupied).
AppendsToChain ==
    /\ last'.op = "index"
    /\ fail' = ""
    /\ last'.ret.kind = "InsertedValue"
    /\ last'.ret.idx >= DYN_OFFSET

\* index returned r on the table after the step: a hit that changes nothing.
HitAgain(r) == r[2].kind = "Indexed" /\ r[1].slots = slots' /\ r[1].fail = ""

\* C16: when a call evicts a slot whose next link designates a slot that
\* stays, the map keeps a Pos of that hash whose logical index is that next
\* slot; and when index(h) appends a value for an existing name while its
\* evictions remove every older slot of that name, the map holds on return a
\* Pos of that name whose logical index is the appended slot's, and the next
\* index of an equal header finds it.
C16_PosMigration ==
    [][/\ Evicts =>
              \A p \in 0..(Removed - 1) :
                  (/\ Linked(p)
                   /\ Place(slots[p + 1].next[1]) >= Removed
                   /\ Place(slots[p + 1].next[1]) < Len(slots)) =>
                      PosAfter(slots[p + 1].next[1], slots[p + 1].hash)
       /\ (/\ AppendsToChain
           /\ Removed > 0
           /\ \A p \in Places :
                  slots[p + 1].header.name = last'.header.name => p < Removed) =>
              /\ PosAfter(wrapping_add(Len(slots') - 1, evicted'),
                          hash_header(last'.header))
              /\ HitAgain(index(Self', last'.header))]_vars

\* The buckets of the map ix that hold a Pos (counted from 1), and the Pos
\* records of the map.
Filled(ix) == {b \in 1..Len(ix) : ix[b] # None}

PosOf(ix) == {ix[b][1] : b \in Filled(ix)}

\* The table g is the table t grown: twice the buckets, the same Pos records,
\* each once, in Robin Hood order for the new mask.
Grown(t, g) ==
    /\ g.fail = ""
    /\ Len(g.indices) = 2 * Len(t.indices)
    /\ g.mask = Len(g.indices) - 1
    /\ PosOf(g.indices) = PosOf(t.indices)
    /\ Cardinality(Filled(g.indices)) = Cardinality(Filled(t.indices))
    /\ RobinHood(g.indices, g.mask)

\* The ring is as long as the usable capacity: the next reserve_one grows.
RingFull == Len(slots) > 0 /\ Len(slots) = capacity(Self)

\* C17: when reserve_one doubles the map (ring length equal to the usable
\* capacity), the new map holds exactly the Pos records of the old map, each
\* once, and satisfies the Robin Hood order for the new mask, for every
\* layout of the old map that satisfies it for the old mask.
C17_GrowthPreservesMap ==
    (Returned /\ RingFull /\ RobinHood(indices, mask)) =>
        Grown(Self, reserve_one(Self))

PowersOfTwo == {2 ^ k : k \in 3..WordBits}

\* The capacity of the map is 0 or a power of two >= 8 with mask = cap - 1,
\* and the ring is no longer than the usable capacity.
CapacityOK ==
    /\ \/ Len(indices) = 0
       \/ Len(indices) \in PowersOfTwo /\ mask = Len(indices) - 1
    /\ Len(slots) <= Len(indices) - Len(indices) \div 4
    /\ Len(indices) > 0 => \E b \in 1..Len(indices) : indices[b] = None

\* C18: in every reachable state the capacity of the index map is 0 or a
\* power of two >= 8 with mask = cap - 1, the ring length never exceeds
\* cap - cap/4 (so one bucket at least is empty when cap > 0), and the
\* capacity never decreases across an index or resize call.
C18_Capacity ==
    [][/\ (fail = "" => CapacityOK)
       /\ (fail' = "" => CapacityOK')
       /\ Len(indices') >= Len(indices)]_vars

\* C18 witness: a call returned after the map grew from 8 to 16 buckets, the
\* ring being as long as the usable capacity of 8 buckets or longer.
C18_Witness ==
    Returned /\ last.op = "index" /\ Len(indices) = 16 /\ Len(slots) >= 6

\* The reasons of a call that would never return.
Endless ==
    {"remove_phase_two: endless loop", "evict: endless probe",
     "reinsert_entry_in_order: endless probe", "index_vacant: endless shift",
     "index_occupied: endless chain", "index_dynamic: endless probe"}

\* C19: every index and resize call terminates: the lookup probe, the shift
\* loops and the chain walk end, and the eviction probe stops on the Pos it
\* looks for (it does not run into an empty bucket).
C19_Termination ==
    /\ fail \notin Endless
    /\ fail # "evict: unwrap of an empty bucket"

\* C20: a run in which evicted wraps past 0 returns the same Index results
\* and leaves the same live ring content as the same run on a table whose
\* counter does not wrap, and it returns whenever that run returns (no slot
\* outside the ring is accessed).
C20_WrapTolerance ==
    /\ (fail = "") = (twin.table.fail = "")
    /\ last.ret = twin.ret
    /\ RingHeaders(slots) = RingHeaders(twin.table.slots)

\* The names of the live slots.
LiveNames == {slots[p + 1].header.name : p \in Places}

\* C21: after any sequence of index and resize calls, no two live slots hold
\* headers with equal name and equal value, and the number of occupied
\* buckets of the index map equals the number of distinct names among the
\* live slots.
C21_NoDuplicates ==
    Returned =>
        /\ \A p \in Places : \A q \in Places :
               SameHeader(slots[p + 1].header, slots[q + 1].header) => p = q
        /\ Cardinality(Occupied) = Cardinality(LiveNames)

====
